---- MODULE Spec2Model ----
(***************************************************************************)
(* Huffman codec (build_frequency_table, build_huffman_tree,               *)
(* build_codes_table, huffman_encoding, huffman_decoding) and the folder   *)
(* archiver (compress_folder, decompress_folder) of huffman_encoding.py.   *)
(*                                                                         *)
(* Symbols are integers; a str is a sequence of symbols; a bit string is a *)
(* sequence over {0, 1}; a file on disk is a sequence of bytes.            *)
(* HuffmanNode objects live in an arena `nodes`                            *)
(* (a sequence of records) and are referred to by their index, the way     *)
(* Python refers to them by identity.  A dict is kept as the sequence of  *)
(* its items <<key, value>> in insertion order.                            *)
(***************************************************************************)
EXTENDS Integers, Sequences, FiniteSets, TLC

\* ------------------------------------------------------------ bounds
\* the codec alone: symbols 1..NumSymbols, inputs of at most MaxLen symbols,
\* bit strings of at most MaxBits bits given to huffman_decoding
NumSymbols == 3
MaxLen == 4
MaxBits == 3
\* the archiver: at most MaxFiles files holding at most MaxPayload bytes in
\* all, over NumFileSymbols letters besides '\n', '\0' and the invalid byte
MaxFiles == 2
MaxPayload == 2
NumFileSymbols == 1

\* Python's None (node.char of an internal node, a missing child, a missing root)
None == -1
\* the '\0' record separator of the archiver
NUL == 0
\* '\n' and '\r': what a text-mode write does to '\n' depends on os.linesep
LF == 10
CR == 13
\* a byte that is not valid UTF-8 on its own
Invalid == 255

Symbols == 1..NumSymbols

RECURSIVE SeqsUpTo(_, _)
SeqsUpTo(S, n) ==
  IF n = 0 THEN {<<>>}
  ELSE LET shorter == SeqsUpTo(S, n - 1)
       IN shorter \cup {Append(s, x) : s \in {t \in shorter : Len(t) = n - 1}, x \in S}

\* ------------------------------------------------------------ HuffmanNode
HuffmanNode(char, freq) ==
  [char |-> char, freq |-> freq, left |-> None, right |-> None]

lt(nodes, self, other) == nodes[self].freq < nodes[other].freq

\* ------------------------------------------------------------ build_frequency_table
\* frequency[char] += 1 on a defaultdict(int): a new key goes last
RECURSIVE Increment(_, _)
Increment(frequency, char) ==
  IF frequency = <<>> THEN << <<char, 1>> >>
  ELSE IF Head(frequency)[1] = char
       THEN << <<char, Head(frequency)[2] + 1>> >> \o Tail(frequency)
       ELSE <<Head(frequency)>> \o Increment(Tail(frequency), char)

RECURSIVE CountFrom(_, _)
CountFrom(frequency, data) ==
  IF data = <<>> THEN frequency
  ELSE CountFrom(Increment(frequency, Head(data)), Tail(data))

build_frequency_table(data) == CountFrom(<<>>, data)

\* ------------------------------------------------------------ heapq
\* heap is a sequence of node indices; Python position p is heap[p + 1]
RECURSIVE siftdown_loop(_, _, _, _, _)
siftdown_loop(nodes, heap, startpos, pos, newitem) ==
  IF pos > startpos
  THEN LET parentpos == (pos - 1) \div 2
           parent == heap[parentpos + 1]
       IN IF lt(nodes, newitem, parent)
          THEN siftdown_loop(nodes, [heap EXCEPT ![pos + 1] = parent],
                             startpos, parentpos, newitem)
          ELSE [heap EXCEPT ![pos + 1] = newitem]
  ELSE [heap EXCEPT ![pos + 1] = newitem]

siftdown(nodes, heap, startpos, pos) ==
  siftdown_loop(nodes, heap, startpos, pos, heap[pos + 1])

RECURSIVE siftup_loop(_, _, _, _, _)
siftup_loop(nodes, heap, startpos, pos, newitem) ==
  LET endpos == Len(heap)
      leftpos == 2 * pos + 1
      rightpos == leftpos + 1
      childpos == IF rightpos < endpos
                     /\ ~lt(nodes, heap[leftpos + 1], heap[rightpos + 1])
                  THEN rightpos ELSE leftpos
  IN IF leftpos < endpos
     THEN siftup_loop(nodes, [heap EXCEPT ![pos + 1] = heap[childpos + 1]],
                      startpos, childpos, newitem)
     ELSE siftdown(nodes, [heap EXCEPT ![pos + 1] = newitem], startpos, pos)

siftup(nodes, heap, pos) == siftup_loop(nodes, heap, pos, pos, heap[pos + 1])

\* for i in reversed(range(n // 2)): _siftup(x, i)
RECURSIVE heapify_from(_, _, _)
heapify_from(nodes, heap, i) ==
  IF i < 0 THEN heap ELSE heapify_from(nodes, siftup(nodes, heap, i), i - 1)

heapify(nodes, heap) == heapify_from(nodes, heap, (Len(heap) \div 2) - 1)

heappop(nodes, heap) ==
  LET lastelt == heap[Len(heap)]
      rest == SubSeq(heap, 1, Len(heap) - 1)
  IN IF rest # <<>>
     THEN [item |-> rest[1],
           heap |-> siftup(nodes, [rest EXCEPT ![1] = lastelt], 0)]
     ELSE [item |-> lastelt, heap |-> rest]

heappush(nodes, heap, item) ==
  siftdown(nodes, Append(heap, item), 0, Len(heap))

\* ------------------------------------------------------------ build_huffman_tree
Merged(nodes, left, right) ==
  [char |-> None, freq |-> nodes[left].freq + nodes[right].freq,
   left |-> left, right |-> right]

RECURSIVE merge_loop(_, _)
merge_loop(nodes, heap) ==
  IF Len(heap) > 1
  THEN LET p1 == heappop(nodes, heap)
           p2 == heappop(nodes, p1.heap)
           nodes2 == Append(nodes, Merged(nodes, p1.item, p2.item))
       IN merge_loop(nodes2, heappush(nodes2, p2.heap, Len(nodes2)))
  ELSE [nodes |-> nodes, root |-> heap[1]]

\* [HuffmanNode(char, freq) for char, freq in frequency.items()]
RECURSIVE Leaves(_)
Leaves(frequency) ==
  IF frequency = <<>> THEN <<>>
  ELSE <<HuffmanNode(Head(frequency)[1], Head(frequency)[2])>>
       \o Leaves(Tail(frequency))

\* the list of the first n node indices: the heap before heapify
RECURSIVE Indices(_)
Indices(n) == IF n = 0 THEN <<>> ELSE Append(Indices(n - 1), n)

build_huffman_tree(frequency) ==
  merge_loop(Leaves(frequency),
             heapify(Leaves(frequency), Indices(Len(frequency))))

\* ------------------------------------------------------------ build_codes_table
\* generate_codes with "0" appended on both sides
RECURSIVE generate_codes_same_bit(_, _, _)
generate_codes_same_bit(nodes, node, current_code) ==
  IF node = None THEN <<>>
  ELSE IF nodes[node].char # None
       THEN << <<nodes[node].char, current_code>> >>
       ELSE generate_codes_same_bit(nodes, nodes[node].left, Append(current_code, 0))
            \o generate_codes_same_bit(nodes, nodes[node].right, Append(current_code, 0))

\* The dict is kept as the sequence of its assignments <<char, code>>, in the
\* order the traversal makes them: codes[node.char] = current_code at every leaf.
RECURSIVE generate_codes(_, _, _)
generate_codes(nodes, node, current_code) ==
  IF node = None THEN <<>>
  ELSE IF nodes[node].char # None
       THEN << <<nodes[node].char, current_code>> >>
       ELSE generate_codes(nodes, nodes[node].left, Append(current_code, 0))
            \o generate_codes(nodes, nodes[node].right, Append(current_code, 1))

build_codes_table(tree) == generate_codes(tree.nodes, tree.root, <<>>)

\* codes.keys()
Keys(codes) == {codes[i][1] : i \in 1..Len(codes)}

\* codes[char]: the last assignment to the key is the one the dict holds
Lookup(codes, char) ==
  LET last == CHOOSE i \in 1..Len(codes) :
                /\ codes[i][1] = char
                /\ \A j \in (i + 1)..Len(codes) : codes[j][1] # char
  IN codes[last][2]

\* ------------------------------------------------------------ huffman_encoding
\* "".join(codes[char] for char in data)
RECURSIVE Join(_, _)
Join(codes, data) ==
  IF data = <<>> THEN <<>> ELSE Lookup(codes, Head(data)) \o Join(codes, Tail(data))

NoTree == [nodes |-> <<>>, root |-> None]

huffman_encoding(data) ==
  IF data = <<>>
  THEN [encoded_data |-> <<>>, root |-> NoTree, frequency |-> <<>>, codes |-> <<>>]
  ELSE LET frequency == build_frequency_table(data)
           root == build_huffman_tree(frequency)
           codes == build_codes_table(root)
       IN [encoded_data |-> Join(codes, data), root |-> root,
           frequency |-> frequency, codes |-> codes]

\* ------------------------------------------------------------ huffman_decoding
\* status "AttributeError": current_node became None and .char was read
RECURSIVE decode_loop(_, _, _, _)
decode_loop(tree, bits, current_node, decoded_chars) ==
  IF bits = <<>>
  THEN [status |-> "ok", out |-> decoded_chars, current_node |-> current_node]
  ELSE LET next == IF Head(bits) = 0 THEN tree.nodes[current_node].left
                   ELSE tree.nodes[current_node].right
       IN IF next = None
          THEN [status |-> "AttributeError", out |-> decoded_chars,
                current_node |-> None]
          ELSE IF tree.nodes[next].char # None
               THEN decode_loop(tree, Tail(bits), tree.root,
                                Append(decoded_chars, tree.nodes[next].char))
               ELSE decode_loop(tree, Tail(bits), next, decoded_chars)

huffman_decoding(encoded_data, tree) ==
  IF encoded_data = <<>> \/ tree.root = None
  THEN [status |-> "ok", out |-> <<>>, current_node |-> tree.root]
  ELSE decode_loop(tree, encoded_data, tree.root, <<>>)

\* ------------------------------------------------------------ paths and slicing
\* A path is the sequence of its components.
input_folder == <<"in">>
output_folder == <<"out">>

\* the files os.walk(input_folder) can yield, by their paths below input_folder
RelPaths == << <<"a.txt">>, <<"sub", "b.txt">>, <<"sub", "c.txt">>, <<"sub", "deep", "d.txt">> >>

\* os.path.join(root_dir, file) for the i-th file of the walk
FilePath(i) == input_folder \o RelPaths[i]

RECURSIVE CommonPrefixLen(_, _)
CommonPrefixLen(p, q) ==
  IF p = <<>> \/ q = <<>> \/ Head(p) # Head(q) THEN 0
  ELSE 1 + CommonPrefixLen(Tail(p), Tail(q))

RECURSIVE Ups(_)
Ups(n) == IF n = 0 THEN <<>> ELSE <<"..">> \o Ups(n - 1)

\* os.path.relpath(path, start): one ".." per component of start that path
\* does not share, then what is left of path
relpath(path, start) ==
  Ups(Len(start) - CommonPrefixLen(path, start))
  \o SubSeq(path, CommonPrefixLen(path, start) + 1, Len(path))

\* bytes.decode("utf-8", errors="ignore") on single-byte text: the bytes that
\* are not valid UTF-8 are dropped
RECURSIVE decode(_)
decode(bytes) ==
  IF bytes = <<>> THEN <<>>
  ELSE IF Head(bytes) = Invalid THEN decode(Tail(bytes))
       ELSE <<Head(bytes)>> \o decode(Tail(bytes))

\* f.write(text) on open(path, "w", encoding="utf-8"): newline=None writes
\* os.linesep for every '\n'
RECURSIVE write_text(_, _)
write_text(text, linesep) ==
  IF text = <<>> THEN <<>>
  ELSE IF Head(text) = LF THEN linesep \o write_text(Tail(text), linesep)
       ELSE <<Head(text)>> \o write_text(Tail(text), linesep)

\* s[index + 1:]
SliceFrom_one_late(s, index) == SubSeq(s, index + 2, Len(s))

\* s[index:]
SliceFrom(s, index) == SubSeq(s, index + 1, Len(s))

\* s.split("\0", 1)[0]
RECURSIVE BeforeNUL(_)
BeforeNUL(s) ==
  IF s = <<>> \/ Head(s) = NUL THEN <<>> ELSE <<Head(s)>> \o BeforeNUL(Tail(s))

\* ------------------------------------------------------------ state
VARIABLES
  pc,            \* position of the run
  data,          \* the symbol sequence given to huffman_encoding
  frequency,     \* huffman_encoding's frequency table
  codes,         \* huffman_encoding's code table
  root,          \* the tree huffman_encoding returned
  encoded_data,  \* the bit string huffman_encoding returned
  bits,          \* the bit string given to huffman_decoding
  result,        \* what huffman_decoding did with it
  linesep,       \* os.linesep of the platform
  files,         \* the bytes of the files of input_folder, in walk order
  walked,        \* how many of them compress_folder has been through
  file_index,    \* compress_folder's file_index, in insertion order
  dirs,          \* the output directories os.makedirs has made
  output_file,   \* the compressed artifact on disk
  tree_file,     \* the tree artifact on disk
  printed,       \* the messages printed so far
  loaded,        \* what decompress_folder unpickled from tree_file
  written,       \* how many index entries decompress_folder has been through
  file_content,  \* decompress_folder's file_content for the last of them
  out_files      \* the files under output_folder: <<path, bytes>>

codec_vars == <<data, frequency, codes, root, encoded_data, bits, result>>
folder_vars == <<linesep, files, walked, file_index, dirs, output_file,
                 tree_file, printed, loaded, written, file_content, out_files>>
folder_vars_but_printed ==
  <<linesep, files, walked, file_index, dirs, output_file, tree_file, loaded,
    written, file_content, out_files>>
vars == <<pc, codec_vars, folder_vars>>

NoResult == [status |-> "none", out |-> <<>>, current_node |-> None]
Absent == [state |-> "absent", content |-> <<>>]
NothingLoaded == [root |-> NoTree, file_index |-> <<>>, original_folder |-> <<>>]

CodecIdle ==
  /\ frequency = <<>>
  /\ codes = <<>>
  /\ root = NoTree
  /\ encoded_data = <<>>
  /\ bits = <<>>
  /\ result = NoResult

FolderIdle ==
  /\ walked = 0
  /\ file_index = <<>>
  /\ dirs = {}
  /\ output_file = Absent
  /\ tree_file = Absent
  /\ printed = {}
  /\ loaded = NothingLoaded
  /\ written = 0
  /\ file_content = <<>>
  /\ out_files = {}

\* ------------------------------------------------------------ the codec alone
Init ==
  /\ pc = "start"
  /\ data \in SeqsUpTo(Symbols, MaxLen)
  /\ CodecIdle
  /\ linesep = <<LF>>
  /\ files = <<>>
  /\ FolderIdle

\* encoded_data, root = huffman_encoding(data)
Encode ==
  /\ pc = "start"
  /\ frequency' = huffman_encoding(data).frequency
  /\ codes' = huffman_encoding(data).codes
  /\ root' = huffman_encoding(data).root
  /\ encoded_data' = huffman_encoding(data).encoded_data
  /\ pc' = "encoded"
  /\ UNCHANGED <<data, bits, result, folder_vars>>

\* huffman_decoding(encoded_data, root) on the pair huffman_encoding returned
Decode ==
  /\ pc = "encoded"
  /\ bits' = encoded_data
  /\ result' = huffman_decoding(encoded_data, root)
  /\ pc' = "decoded"
  /\ UNCHANGED <<data, frequency, codes, root, encoded_data, folder_vars>>

\* huffman_decoding(b, root) on any bit string, as a loaded artifact may hold
DecodeBits ==
  /\ pc = "encoded"
  /\ \E b \in SeqsUpTo({0, 1}, MaxBits) :
       /\ bits' = b
       /\ result' = huffman_decoding(b, root)
  /\ pc' = "decodedBits"
  /\ UNCHANGED <<data, frequency, codes, root, encoded_data, folder_vars>>

Next == Encode \/ Decode \/ DecodeBits

Spec == Init /\ [][Next]_vars

\* ------------------------------------------------------------ compress_folder
\* the bytes a file may hold: letters from 'a' on, '\n', '\0', an invalid byte
FileSymbols == {NUL, LF, Invalid} \cup (97..(96 + NumFileSymbols))

\* the lists of at most n file contents holding at most budget symbols in all
RECURSIVE FileLists(_, _)
FileLists(n, budget) ==
  IF n = 0 THEN {<<>>}
  ELSE {<<>>} \cup
       UNION {{<<c>> \o rest : rest \in FileLists(n - 1, budget - Len(c))} :
                c \in SeqsUpTo(FileSymbols, budget)}

FolderInit ==
  /\ pc = "walk"
  /\ linesep \in {<<LF>>, <<CR, LF>>}
  /\ files \in FileLists(MaxFiles, MaxPayload)
  /\ data = <<>>
  /\ CodecIdle
  /\ FolderIdle

\* one file of the os.walk loop: read and decoded, or skipped with a message
ReadFile ==
  /\ pc = "walk"
  /\ walked < Len(files)
  /\ walked' = walked + 1
  /\ \/ /\ file_index' = Append(file_index, <<FilePath(walked + 1), Len(data)>>)
        /\ data' = data \o decode(files[walked + 1]) \o <<NUL>>
        /\ UNCHANGED printed
     \/ /\ printed' = printed \cup {"Error reading file"}
        /\ UNCHANGED <<file_index, data>>
  /\ UNCHANGED <<pc, frequency, codes, root, encoded_data, bits, result,
                 linesep, files, dirs, output_file, tree_file, loaded, written,
                 file_content, out_files>>

\* EncodePayload without the `if root is None` return
EncodePayload_unguarded ==
  /\ pc = "walk"
  /\ walked = Len(files)
  /\ frequency' = huffman_encoding(data).frequency
  /\ codes' = huffman_encoding(data).codes
  /\ root' = huffman_encoding(data).root
  /\ encoded_data' = huffman_encoding(data).encoded_data
  /\ pc' = "makedirs"
  /\ UNCHANGED <<data, bits, result, printed, folder_vars_but_printed>>

\* encoded_data, root = huffman_encoding(data); if root is None: ... return
EncodePayload ==
  /\ pc = "walk"
  /\ walked = Len(files)
  /\ frequency' = huffman_encoding(data).frequency
  /\ codes' = huffman_encoding(data).codes
  /\ root' = huffman_encoding(data).root
  /\ encoded_data' = huffman_encoding(data).encoded_data
  /\ IF huffman_encoding(data).root.root = None
     THEN /\ printed' = printed \cup {"No data to compress."}
          /\ pc' = "returned"
     ELSE /\ UNCHANGED printed
          /\ pc' = "makedirs"
  /\ UNCHANGED <<data, bits, result, folder_vars_but_printed>>

\* the two os.makedirs calls: both succeed, or one raises and the function returns
MakeDirs ==
  /\ pc = "makedirs"
  /\ \/ /\ dirs' = {"output_file", "tree_file"}
        /\ pc' = "write_compressed"
        /\ UNCHANGED printed
     \/ /\ dirs' \in {{}, {"output_file"}}
        /\ printed' = printed \cup {"Error creating directories"}
        /\ pc' = "returned"
  /\ UNCHANGED <<codec_vars, linesep, files, walked, file_index, output_file,
                 tree_file, loaded, written, file_content, out_files>>

\* what a failed open(path, "wb") + pickle.dump leaves at path: open raised
\* (nothing there) or the dump raised (a truncated file)
FailedWrite == {Absent, [state |-> "partial", content |-> <<>>]}

\* pickle.dump(encoded_data, f); a failure is printed and the function goes on
WriteCompressed ==
  /\ pc = "write_compressed"
  /\ \/ /\ output_file' = [state |-> "intact", content |-> encoded_data]
        /\ UNCHANGED printed
     \/ /\ output_file' \in FailedWrite
        /\ printed' = printed \cup {"Error writing compressed file"}
  /\ pc' = "write_tree"
  /\ UNCHANGED <<codec_vars, linesep, files, walked, file_index, dirs,
                 tree_file, loaded, written, file_content, out_files>>

\* pickle.dump((root, file_index, input_folder), f); a failure is printed
WriteTree ==
  /\ pc = "write_tree"
  /\ \/ /\ tree_file' = [state |-> "intact",
                         content |-> [root |-> root, file_index |-> file_index,
                                      original_folder |-> input_folder]]
        /\ UNCHANGED printed
     \/ /\ tree_file' \in FailedWrite
        /\ printed' = printed \cup {"Error writing tree file"}
  /\ pc' = "report"
  /\ UNCHANGED <<codec_vars, linesep, files, walked, file_index, dirs,
                 output_file, loaded, written, file_content, out_files>>

\* print("Compression complete.")
Report ==
  /\ pc = "report"
  /\ printed' = printed \cup {"Compression complete."}
  /\ pc' = "returned"
  /\ UNCHANGED <<codec_vars, folder_vars_but_printed>>

\* ------------------------------------------------------------ decompress_folder
\* encoded_data = pickle.load(f) of the compressed artifact
LoadCompressed ==
  /\ pc = "returned"
  /\ IF output_file.state = "intact"
     THEN /\ bits' = output_file.content
          /\ pc' = "load_tree"
          /\ UNCHANGED printed
     ELSE /\ printed' = printed \cup {"Error reading compressed file"}
          /\ pc' = "done"
          /\ UNCHANGED bits
  /\ UNCHANGED <<data, frequency, codes, root, encoded_data, result,
                 folder_vars_but_printed>>

\* root, file_index, original_folder = pickle.load(f) of the tree artifact
LoadTree ==
  /\ pc = "load_tree"
  /\ IF tree_file.state = "intact"
     THEN /\ loaded' = tree_file.content
          /\ pc' = "decode"
          /\ UNCHANGED printed
     ELSE /\ printed' = printed \cup {"Error reading tree file"}
          /\ pc' = "done"
          /\ UNCHANGED loaded
  /\ UNCHANGED <<codec_vars, linesep, files, walked, file_index, dirs,
                 output_file, tree_file, written, file_content, out_files>>

\* decoded_data = huffman_decoding(encoded_data, root); an exception ends the run
DecodePayload ==
  /\ pc = "decode"
  /\ result' = huffman_decoding(bits, loaded.root)
  /\ pc' = IF huffman_decoding(bits, loaded.root).status = "ok"
           THEN "write_files" ELSE "raised"
  /\ UNCHANGED <<data, frequency, codes, root, encoded_data, bits, folder_vars>>

\* one entry of the file_index loop: sliced, and written or reported
WriteFile ==
  /\ pc = "write_files"
  /\ written < Len(loaded.file_index)
  /\ written' = written + 1
  /\ file_content' = BeforeNUL(SliceFrom(result.out,
                                         loaded.file_index[written + 1][2]))
  /\ \/ /\ out_files' = out_files \cup
             {<< output_folder \o relpath(loaded.file_index[written + 1][1],
                                          loaded.original_folder),
                 write_text(file_content', linesep) >>}
        /\ UNCHANGED printed
     \/ /\ printed' = printed \cup {"Error writing decompressed file"}
        /\ UNCHANGED out_files
  /\ UNCHANGED <<pc, codec_vars, linesep, files, walked, file_index, dirs,
                 output_file, tree_file, loaded>>

\* print("Decompression complete.")
Complete ==
  /\ pc = "write_files"
  /\ written = Len(loaded.file_index)
  /\ printed' = printed \cup {"Decompression complete."}
  /\ pc' = "done"
  /\ UNCHANGED <<codec_vars, folder_vars_but_printed>>

FolderNext ==
  \/ ReadFile \/ EncodePayload \/ MakeDirs \/ WriteCompressed \/ WriteTree
  \/ Report \/ LoadCompressed \/ LoadTree \/ DecodePayload \/ WriteFile
  \/ Complete

FolderSpec == FolderInit /\ [][FolderNext]_vars

\* ------------------------------------------------------------ properties
Range(s) == {s[i] : i \in 1..Len(s)}

IsPrefix(a, b) == Len(a) <= Len(b) /\ SubSeq(b, 1, Len(a)) = a

\* every order the items of an insertion-ordered dict can be in
RECURSIVE Reorderings(_)
Reorderings(s) ==
  IF s = <<>> THEN {<<>>}
  ELSE UNION {{<<s[i]>> \o r :
                 r \in Reorderings(SubSeq(s, 1, i - 1) \o SubSeq(s, i + 1, Len(s)))} :
              i \in 1..Len(s)}

\* two code tables are the same dict
SameDict(c1, c2) ==
  /\ Keys(c1) = Keys(c2)
  /\ \A k \in Keys(c1) : Lookup(c1, k) = Lookup(c2, k)

WriteErrors == {"Error writing compressed file", "Error writing tree file"}

AllErrors ==
  WriteErrors \cup {"Error reading file", "Error creating directories",
                    "Error reading compressed file", "Error reading tree file",
                    "Error writing decompressed file"}

\* the file of the walk whose path is p
FileAt(p) == CHOOSE k \in 1..Len(files) : FilePath(k) = p

\* C1: decoding what huffman_encoding returned for a non-empty input gives
\* the input back.
RoundTrip ==
  (pc = "decoded" /\ data # <<>>) =>
    (result.status = "ok" /\ result.out = data)

\* C2: in the code table of a non-empty frequency table no symbol's code is a
\* prefix of another symbol's code, and every symbol of the table is assigned
\* exactly one code.
PrefixFree ==
  (pc = "encoded" /\ frequency # <<>>) =>
    /\ \A i, j \in 1..Len(codes) :
         codes[i][1] # codes[j][1] => ~IsPrefix(codes[i][2], codes[j][2])
    /\ \A k \in 1..Len(frequency) :
         Cardinality({i \in 1..Len(codes) : codes[i][1] = frequency[k][1]}) = 1
    /\ Keys(codes) = {frequency[k][1] : k \in 1..Len(frequency)}

\* a table of three symbols whose codes have different lengths
PrefixFreeWitness ==
  /\ pc = "encoded"
  /\ Len(frequency) = 3
  /\ \E i, j \in 1..Len(codes) : Len(codes[i][2]) < Len(codes[j][2])

\* C3: after compress_folder and decompress_folder with no error reported,
\* every file without a terminator is under output_folder, at its path
\* relative to input_folder, with the bytes it had.
FolderRoundTrip ==
  (/\ pc = "done"
   /\ printed \cap AllErrors = {}
   /\ files # <<>>
   /\ \A i \in 1..Len(files) : NUL \notin Range(files[i])) =>
    /\ \A i \in 1..Len(files) :
         <<output_folder \o RelPaths[i], files[i]>> \in out_files
    /\ Cardinality(out_files) = Len(files)

\* C4: an input of one distinct symbol gets a code of at least one bit, a
\* non-empty encoding, and decodes to itself.
SingleSymbolConvention ==
  (pc = "decoded" /\ Len(frequency) = 1) =>
    /\ Lookup(codes, data[1]) # <<>>
    /\ encoded_data # <<>>
    /\ result.out = data

\* C5: huffman_decoding never returns normally when the bit string ends with
\* the walk below the root, in the middle of a code.
MidCodeIsAnError ==
  pc = "decodedBits" =>
    ~(result.status = "ok" /\ result.current_node # root.root)

\* C6: when compress_folder has returned after a failed artifact write,
\* neither artifact is on disk.
AllOrNothing ==
  (pc = "returned" /\ printed \cap WriteErrors # {}) =>
    (output_file.state = "absent" /\ tree_file.state = "absent")

\* C7: "Compression complete." is printed only when neither artifact write
\* failed.
NoFalseSuccess ==
  "Compression complete." \in printed => printed \cap WriteErrors = {}

\* C8: with an empty payload compress_folder prints the no-data message and
\* returns: no artifact is written, no directory made, no success printed.
EmptyInputWritesNothing ==
  (pc # "walk" /\ data = <<>>) =>
    /\ "No data to compress." \in printed
    /\ pc \in {"returned", "done"}
    /\ output_file = Absent
    /\ tree_file = Absent
    /\ dirs = {}
    /\ "Compression complete." \notin printed

\* a folder of two files, both skipped as unreadable
EmptyInputWitness ==
  /\ pc = "returned"
  /\ Len(files) >= 2
  /\ data = <<>>
  /\ "No data to compress." \in printed

\* C9: the code table does not depend on the order in which the symbols were
\* inserted into the frequency table.
OrderIndependent ==
  (pc = "encoded" /\ frequency # <<>>) =>
    \A f \in Reorderings(frequency) :
      SameDict(build_codes_table(build_huffman_tree(f)), codes)

====
